---- MODULE Spec2Model ----
(***************************************************************************)
(* Model of the backtest engine and live scanner of MakeMyAlgo             *)
(* (src/server/index.js; src/unnamed/part_000 is an earlier snapshot of    *)
(* the same file).                                                         *)
(*                                                                         *)
(* Units: prices, capital, P&L and indicator values are integers counted   *)
(* in hundredths (a close of 100.00 is 10000), so that toFixed(2) is an    *)
(* integer rounding; positionSize is counted in percent (0.1 is 10).       *)
(* Arrays are TLA+ sequences; a JavaScript index k is position k+1.        *)
(* A candle's date is modelled by its index in the series (timestamps are  *)
(* strictly increasing, so the date names the bar).                        *)
(***************************************************************************)
EXTENDS Integers, Sequences, FiniteSets, TLC

VARIABLES
    candles,        \* runBacktest argument: the candle series
    buyRules,       \* runBacktest argument
    sellRules,      \* runBacktest argument
    config,         \* runBacktest argument (fields may be missing: defaults)
    pc,             \* position of runBacktest: "start", "loop", "done", "idle"
    i,              \* loop index of the scan over the bars
    capital,        \* realized capital
    position,       \* Null or the open position
    trades,         \* full trade list, in close order
    equityCurve,    \* equity points
    result,         \* the returned object, Null until the return
    stocks,         \* scanLiveSignals argument: the watchlist
    rules,          \* scanLiveSignals argument
    feed,           \* per symbol, what the data provider has for fetchStockData
    k,              \* position of scanLiveSignals in the watchlist
    signals,        \* scanLiveSignals local
    spc,            \* position of scanLiveSignals: "scan", "returned", "idle"
    evRule,         \* evaluator harness: the rule under evaluation
    evIndex,        \* evaluator harness: the index
    evOut,          \* evaluator harness: Null or the verdicts
    call,           \* indicator harness: the call of an indicator function
    ret             \* indicator harness: Null or the returned value

btVars == <<candles, buyRules, sellRules, config, pc, i,
            capital, position, trades, equityCurve, result>>
scVars == <<stocks, rules, feed, k, signals, spc>>
evVars == <<evRule, evIndex, evOut>>
inVars == <<call, ret>>
vars == <<btVars, scVars, evVars, inVars>>

-----------------------------------------------------------------------------
(* JavaScript values *)

\* Indicator values are number | null | undefined.  Null also stands for the
\* null of `position`, and for a result not yet returned.
Null == [tag |-> "null"]
Undef == [tag |-> "undefined"]
Num(x) == [tag |-> "num", n |-> x]

\* An indicator array is its length and its elements, element k at position
\* k+1.  a[idx] of JavaScript is undefined outside the array.
Arr(n, elems) == [length |-> n, at |-> elems]
EmptyArr == Arr(0, <<>>)
At(a, idx) == IF idx >= 0 /\ idx < a.length THEN a.at[idx + 1] ELSE Undef

\* The relational operators on number | null | undefined against a number:
\* null converts to 0, undefined to NaN, and a comparison with NaN is false.
ToNumber(v) == IF v = Null THEN 0 ELSE v.n
JsLe(v, t) == v # Undef /\ ToNumber(v) <= t
JsGe(v, t) == v # Undef /\ ToNumber(v) >= t
JsLt(v, t) == v # Undef /\ ToNumber(v) < t
JsGt(v, t) == v # Undef /\ ToNumber(v) > t

Abs(x) == IF x < 0 THEN -x ELSE x

\* x / d rounded to the nearest integer, halves away from zero (Number.toFixed)
RoundDiv(x, d) ==
    IF x >= 0 THEN (2 * x + d) \div (2 * d) ELSE -((2 * (-x) + d) \div (2 * d))

\* +x.toFixed(0) of an amount counted in hundredths
ToFixed0(x) == 100 * RoundDiv(x, 100)

\* The numbers that are not finite.  A division by a close of 0 produces them;
\* a finite number stays a TLA+ integer.
Infinity == [tag |-> "Infinity"]
NegInfinity == [tag |-> "-Infinity"]
NaN == [tag |-> "NaN"]

\* Number.isFinite(x) (an integer and a record cannot be compared, their
\* printed forms can)
IsFinite(x) == ToString(x) \notin {ToString(Infinity), ToString(NegInfinity), ToString(NaN)}

IsNaN(x) == ~IsFinite(x) /\ x = NaN

\* Math.sign(x) for x other than NaN
XSign(x) ==
    IF IsFinite(x) THEN (IF x > 0 THEN 1 ELSE IF x < 0 THEN -1 ELSE 0)
    ELSE IF x = Infinity THEN 1 ELSE -1

\* a + b
XAdd(a, b) ==
    IF IsFinite(a) /\ IsFinite(b) THEN a + b
    ELSE IF IsNaN(a) \/ IsNaN(b) THEN NaN
    ELSE IF IsFinite(a) THEN b
    ELSE IF IsFinite(b) THEN a
    ELSE IF a = b THEN a ELSE NaN

\* a * b
XMul(a, b) ==
    IF IsFinite(a) /\ IsFinite(b) THEN a * b
    ELSE IF IsNaN(a) \/ IsNaN(b) THEN NaN
    ELSE LET sign == XSign(a) * XSign(b)
         IN  IF sign > 0 THEN Infinity ELSE IF sign < 0 THEN NegInfinity ELSE NaN

\* a > t, a >= t and a <= t for a finite t: false for NaN
XGt(a, t) == IF IsFinite(a) THEN a > t ELSE a = Infinity
XGe(a, t) == IF IsFinite(a) THEN a >= t ELSE a = Infinity
XLe(a, t) == IF IsFinite(a) THEN a <= t ELSE a = NegInfinity

\* +x.toFixed(0) of an amount counted in hundredths
XToFixed0(x) == IF IsFinite(x) THEN ToFixed0(x) ELSE x

\* a.slice(from, to).reduce((x, y) => x + y, 0) for 0 <= from <= to <= a.length
\* (the sum of a range is the sum of its two halves)
RECURSIVE SumSlice(_, _, _)
SumSlice(a, from, to) ==
    IF to <= from THEN 0
    ELSE IF to = from + 1 THEN a[to]
    ELSE SumSlice(a, from, (from + to) \div 2) + SumSlice(a, (from + to) \div 2, to)

\* s.reduce((x, y) => x + y, 0)
SumSeq(s) == SumSlice(s, 0, Len(s))

\* s.reduce((x, y) => x + y, 0) for numbers that need not be finite
XSumSeq(s) ==
    IF \A j \in DOMAIN s : IsFinite(s[j]) THEN SumSeq(s)
    ELSE IF \E j \in DOMAIN s : IsNaN(s[j]) THEN NaN
    ELSE IF (\E j \in DOMAIN s : ~IsFinite(s[j]) /\ s[j] = Infinity)
            /\ (\E j \in DOMAIN s : ~IsFinite(s[j]) /\ s[j] = NegInfinity) THEN NaN
    ELSE IF \E j \in DOMAIN s : ~IsFinite(s[j]) /\ s[j] = Infinity THEN Infinity
    ELSE NegInfinity

\* the largest of a[from + 1 .. to], for from < to
RECURSIVE MaxSlice(_, _, _)
MaxSlice(a, from, to) ==
    IF to = from + 1 THEN a[to]
    ELSE LET l == MaxSlice(a, from, (from + to) \div 2)
             r == MaxSlice(a, (from + to) \div 2, to)
         IN  IF l >= r THEN l ELSE r

RECURSIVE GCD(_, _)
GCD(x, y) == IF y = 0 THEN x ELSE GCD(y, x % y)

\* +(x / d * 100).toFixed(2) counted in hundredths: 10000 * x / d rounded, the
\* fraction reduced before the multiplication
Percent2(x, d) ==
    LET g == GCD(10000, d) IN RoundDiv(x * (10000 \div g), d \div g)

\* a.slice(0, n): the first n in place of the last n
SliceFirst(a, n) == IF Len(a) <= n THEN a ELSE SubSeq(a, 1, n)

\* a.slice(-n)
SliceLast(a, n) == IF Len(a) <= n THEN a ELSE SubSeq(a, Len(a) - n + 1, Len(a))

-----------------------------------------------------------------------------
(* Technical indicators *)

computeSMA(closes, period) ==
    Arr(Len(closes),
        [j \in 1..Len(closes) |->
            IF j - 1 < period - 1 THEN Null
            ELSE Num(RoundDiv(SumSlice(closes, j - period, j), period))])

\* upper and lower need a square root and are read by no evaluator
computeBollingerBands(closes, period) ==
    [middle |-> computeSMA(closes, period)]

\* parseInt(params.Period) || dflt
PeriodOf(params, dflt) ==
    IF "Period" \in DOMAIN params /\ params.Period \in Nat \ {0}
    THEN params.Period ELSE dflt

\* candles.map(c => c.close)
Closes(cs) == [j \in 1..Len(cs) |-> cs[j].close]

Max(x, y) == IF x >= y THEN x ELSE y

\* the true range of bar idx (JavaScript index): high - low at bar 0, else
\* Math.max(high - low, |high - previous close|, |low - previous close|)
trueRange(cs, idx) ==
    LET c == cs[idx + 1] IN
    IF idx = 0 THEN c.high - c.low
    ELSE Max(c.high - c.low,
             Max(Abs(c.high - cs[idx].close), Abs(c.low - cs[idx].close)))

\* result[to] from prev = result[from - 1]: the bars from..to smoothed one
\* after the other, (prev * (period - 1) + tr) / period rounded at each bar
\* (the range is taken by halves; the left half is a value, never negative as
\* no true range is, before the right half starts from it)
RECURSIVE atrSmooth(_, _, _, _, _)
atrSmooth(cs, period, prev, from, to) ==
    IF from > to THEN prev
    ELSE IF from = to
    THEN RoundDiv(prev * (period - 1) + trueRange(cs, from), period)
    ELSE LET mid == (from + to) \div 2
             half == atrSmooth(cs, period, prev, from, mid)
         IN  IF half >= 0 THEN atrSmooth(cs, period, half, mid + 1, to) ELSE half

\* result[idx] of computeATR: null below period, the mean of the first
\* period + 1 true ranges at period, the smoothed value after it
atrAt(cs, period, idx) ==
    IF idx < period THEN Null
    ELSE LET first == RoundDiv(
                 SumSlice([j \in 1..(period + 1) |-> trueRange(cs, j - 1)],
                          0, period + 1),
                 period + 1)
         IN  Num(atrSmooth(cs, period, first, period + 1, idx))

computeATR(cs, period) ==
    Arr(Len(cs), [j \in 1..Len(cs) |-> atrAt(cs, period, j - 1)])

\* A number that is not a whole count of hundredths is kept as the exact
\* fraction num / den, den > 0, in lowest terms; a double differs from it by
\* far less than the half hundredth that toFixed(2) decides on.
Rat(n, d) == LET g == GCD(Abs(n), d) IN [num |-> n \div g, den |-> d \div g]

RatInt(x) == [num |-> x, den |-> 1]

RatNeg(a) == [num |-> -a.num, den |-> a.den]

RatAdd(a, b) ==
    LET g == GCD(a.den, b.den)
    IN  Rat(a.num * (b.den \div g) + b.num * (a.den \div g), (a.den \div g) * b.den)

RatSub(a, b) == RatAdd(a, RatNeg(b))

RatMul(a, b) ==
    LET g1 == GCD(Abs(a.num), b.den)
        g2 == GCD(Abs(b.num), a.den)
    IN  Rat((a.num \div g1) * (b.num \div g2), (a.den \div g2) * (b.den \div g1))

\* a / b for b > 0
RatDiv(a, b) == RatMul(a, [num |-> b.den, den |-> b.num])

\* +x.toFixed(2), counted in hundredths
RatRound(a) == RoundDiv(a.num, a.den)

\* vals.slice(from, from + period).reduce((a, b) => a + b, 0) / period
emaSeed(vals, from, period) == Rat(SumSlice(vals, from, from + period), period)

\* the weight k = 1 in place of 2 / (period + 1): the latest value alone
emaStepLatest(ema, x, period) == RatInt(x)

\* x * k + ema * (1 - k) with k = 2 / (period + 1)
emaStep(ema, x, period) ==
    LET weight == Rat(2, period + 1)
    IN  RatAdd(RatMul(RatInt(x), weight), RatMul(ema, RatSub(RatInt(1), weight)))

\* one pass of the loop of computeEMA; s.ema is Null or the running average
emaBody(closes, period, s, idx) ==
    IF idx < period - 1
    THEN [ema |-> s.ema, result |-> Append(s.result, Null)]
    ELSE LET ema == IF s.ema = Null THEN emaSeed(closes, 0, period)
                    ELSE emaStep(s.ema, closes[idx + 1], period)
         IN  [ema |-> ema, result |-> Append(s.result, Num(RatRound(ema)))]


\* rs = avgLoss === 0 ? 100 : avgGain / avgLoss; +(100 - 100 / (1 + rs)).toFixed(2)
rsiOf(avgGain, avgLoss) ==
    LET rs == IF avgLoss.num = 0 THEN RatInt(100) ELSE RatDiv(avgGain, avgLoss)
    IN  RatRound(RatSub(RatInt(10000), RatDiv(RatInt(10000), RatAdd(RatInt(1), rs))))

\* the sums given out two bars early
rsiWarmupShort(idx, period) == idx < period - 2

\* if (i < period) { result.push(null); continue; }
rsiWarmup(idx, period) == idx < period

\* one pass of the loop of computeRSI
rsiBody(closes, period, s, idx) ==
    IF idx = 0 THEN [s EXCEPT !.result = Append(@, Null)]
    ELSE LET change == closes[idx + 1] - closes[idx]
             gain == RatInt(IF change > 0 THEN change ELSE 0)
             loss == RatInt(IF change < 0 THEN -change ELSE 0)
         IN  IF rsiWarmup(idx, period)
             THEN [avgGain |-> RatAdd(s.avgGain, gain),
                   avgLoss |-> RatAdd(s.avgLoss, loss),
                   result |-> Append(s.result, Null)]
             ELSE LET avgGain == IF idx = period
                                 THEN RatDiv(RatAdd(s.avgGain, gain), RatInt(period))
                                 ELSE RatDiv(RatAdd(RatMul(s.avgGain, RatInt(period - 1)), gain),
                                             RatInt(period))
                      avgLoss == IF idx = period
                                 THEN RatDiv(RatAdd(s.avgLoss, loss), RatInt(period))
                                 ELSE RatDiv(RatAdd(RatMul(s.avgLoss, RatInt(period - 1)), loss),
                                             RatInt(period))
                  IN  [avgGain |-> avgGain, avgLoss |-> avgLoss,
                       result |-> Append(s.result, Num(rsiOf(avgGain, avgLoss)))]


\* a.map((x, i) => (x != null && b[i] != null) ? +(x - b[i]).toFixed(2) : null)
diffLine(a, b) ==
    [j \in 1..a.length |->
        IF a.at[j] # Null /\ b.at[j] # Null THEN Num(a.at[j].n - b.at[j].n) ELSE Null]

\* macdLine.indexOf(macdLine.find(v => v !== null)), some value being not null
firstValid(macdLine) ==
    CHOOSE j \in 0..(Len(macdLine) - 1) :
        /\ macdLine[j + 1] # Null
        /\ \A h \in 0..(j - 1) : macdLine[h + 1] = Null

\* one pass of the loop that builds signalLine
signalBody(macdLine, signal, s, idx) ==
    IF macdLine[idx + 1] = Null
    THEN [s EXCEPT !.signalLine = Append(@, Null)]
    ELSE IF s.validIdx + 1 < signal
    THEN [s EXCEPT !.validIdx = @ + 1, !.signalLine = Append(@, Null)]
    ELSE LET vals == [j \in 1..Len(macdLine) |-> ToNumber(macdLine[j])]
             ema == IF s.ema = Null THEN emaSeed(vals, firstValid(macdLine), signal)
                    ELSE emaStep(s.ema, macdLine[idx + 1].n, signal)
         IN  [ema |-> ema, validIdx |-> s.validIdx + 1,
              signalLine |-> Append(s.signalLine, Num(RatRound(ema)))]

\* one pass of the loop of computeEMA, of computeRSI or of the signal line
passOf(fn, vals, period, s, idx) ==
    CASE fn = "ema" -> emaBody(vals, period, s, idx)
      [] fn = "rsi" -> rsiBody(vals, period, s, idx)
      [] fn = "signal" -> signalBody(vals, period, s, idx)

\* for (let i = from; i <= to; i++): the state after the passes from..to of
\* the loop of fn; the first half of the passes runs before the second
RECURSIVE Loop(_, _, _, _, _, _)
Loop(fn, vals, period, s, from, to) ==
    IF from > to THEN s
    ELSE IF from = to THEN passOf(fn, vals, period, s, from)
    ELSE LET mid == (from + to) \div 2
             half == Loop(fn, vals, period, s, from, mid)
         IN  IF half = half THEN Loop(fn, vals, period, half, mid + 1, to) ELSE half

computeEMA(closes, period) ==
    LET end == Loop("ema", closes, period, [ema |-> Null, result |-> <<>>],
                    0, Len(closes) - 1)
    IN  Arr(Len(closes), end.result)

\* the state of computeRSI after the pass of index idx
rsiState(closes, period, idx) ==
    Loop("rsi", closes, period,
         [avgGain |-> RatInt(0), avgLoss |-> RatInt(0), result |-> <<>>], 0, idx)

computeRSI(closes, period) ==
    Arr(Len(closes), rsiState(closes, period, Len(closes) - 1).result)

computeMACD(closes, fast, slow, signal) ==
    LET emaFast == computeEMA(closes, fast)
        emaSlow == computeEMA(closes, slow)
        macdLine == diffLine(emaFast, emaSlow)
        end == Loop("signal", macdLine, signal,
                    [ema |-> Null, validIdx |-> 0, signalLine |-> <<>>],
                    0, Len(closes) - 1)
        signalLine == Arr(Len(closes), end.signalLine)
    IN  [macdLine |-> Arr(Len(closes), macdLine),
         signalLine |-> signalLine,
         histogram |-> Arr(Len(closes), diffLine(Arr(Len(closes), macdLine), signalLine))]

\* the kinds sma and bb, and the default branch; the inputs of this model draw
\* no rule of the kinds ema, rsi, macd, supertrend, vwap and atr
computeIndicator(cs, indicator, params) ==
    CASE indicator = "sma" ->
            [type |-> "line", values |-> computeSMA(Closes(cs), PeriodOf(params, 20))]
      [] indicator = "bb" ->
            [type |-> "band",
             middle |-> computeBollingerBands(Closes(cs), PeriodOf(params, 20)).middle]
      [] OTHER -> [type |-> "line", values |-> EmptyArr]

-----------------------------------------------------------------------------
(* Condition evaluator of the backtest *)

\* `${rule.indicator}_${JSON.stringify(rule.params)}`
KeyOf(rule) == <<rule.indicator, rule.params>>

\* the cache runBacktest fills before the scan: its keys, one per key of
\* allRules, and the indicator data under each key
buildCache(cs, allRules) ==
    LET keys == {KeyOf(allRules[j]) : j \in DOMAIN allRules} IN
    [keys |-> keys,
     data |-> [key \in keys |-> computeIndicator(cs, key[1], key[2])]]

getVal(cache, rule, index) ==
    IF KeyOf(rule) \notin cache.keys THEN Null
    ELSE LET data == cache.data[KeyOf(rule)] IN
         IF data.type = "band" THEN At(data.middle, index)
         ELSE IF "values" \in DOMAIN data THEN At(data.values, index) ELSE Null

\* the test of the previous value left out
prevAny(prev) == TRUE

\* prev !== null
prevNotNull(prev) == prev # Null

checkCond(cache, rule, index) ==
    LET cur == getVal(cache, rule, index)
        prev == IF index > 0 THEN getVal(cache, rule, index - 1) ELSE Null
        target == rule.value
    IN  IF cur = Null THEN FALSE
        ELSE CASE rule.condition = "Crosses Above" ->
                    prevNotNull(prev) /\ JsLe(prev, target) /\ JsGt(cur, target)
               [] rule.condition = "Crosses Below" ->
                    prevNotNull(prev) /\ JsGe(prev, target) /\ JsLt(cur, target)
               [] rule.condition = "Is Above" -> JsGt(cur, target)
               [] rule.condition = "Is Below" -> JsLt(cur, target)
               [] rule.condition = "Equals" ->
                    \* Math.abs(cur - target) < 0.01; NaN < 0.01 is false
                    cur # Undef /\ Abs(ToNumber(cur) - target) < 1
               [] OTHER -> FALSE

-----------------------------------------------------------------------------
(* runBacktest *)

\* a warm-up one bar short
startIndexShort == 50 - 1

startIndex == 50

DefaultInitialCapital == 10000000
DefaultPositionSize == 10
DefaultStopLossPercent == 2
DefaultTargetPercent == 4

\* const { initialCapital = 100000, positionSize = 0.1, ... } = config
initialCapital ==
    IF "initialCapital" \in DOMAIN config THEN config.initialCapital
    ELSE DefaultInitialCapital
positionSize ==
    IF "positionSize" \in DOMAIN config THEN config.positionSize
    ELSE DefaultPositionSize
stopLossPercent ==
    IF "stopLossPercent" \in DOMAIN config THEN config.stopLossPercent
    ELSE DefaultStopLossPercent
targetPercent ==
    IF "targetPercent" \in DOMAIN config THEN config.targetPercent
    ELSE DefaultTargetPercent

indicatorCache == buildCache(candles, buyRules \o sellRules)

\* rs.every(r => checkCond(r, index))
Every(rs, index) == \A j \in DOMAIN rs : checkCond(indicatorCache, rs[j], index)

NoReason == "null"

\* the minus sign of the threshold left out
StopLossTestNoMinus(pos, close) ==
    (close - pos.entryPrice) * 100 <= stopLossPercent * pos.entryPrice

\* pnlPct <= -stopLossPercent, with pnlPct = (close - entry) / entry * 100;
\* after an entry at 0 pnlPct is Infinity or NaN and the test is false
StopLossTest(pos, close) ==
    /\ pos.entryPrice # 0
    /\ (close - pos.entryPrice) * 100 <= -stopLossPercent * pos.entryPrice

\* pnlPct >= targetPercent; after an entry at 0 pnlPct is Infinity above 0
\* and NaN at 0
TargetTest(pos, close) ==
    IF pos.entryPrice = 0 THEN close > 0
    ELSE (close - pos.entryPrice) * 100 >= targetPercent * pos.entryPrice

\* sellRules.every(...) alone, without the length test
SellTriggeredNoLengthTest(index) == Every(sellRules, index)

SellTriggered(index) == Len(sellRules) > 0 /\ Every(sellRules, index)

\* buyRules.every(...) alone, without the length test
BuyTriggeredNoLengthTest(index) == Every(buyRules, index)

BuyTriggered(index) == Len(buyRules) > 0 /\ Every(buyRules, index)

\* the target test before the stop-loss test
exitReasonTargetFirst(pos, close, index) ==
    IF TargetTest(pos, close) THEN "Target Hit"
    ELSE IF StopLossTest(pos, close) THEN "Stop Loss"
    ELSE IF SellTriggered(index) THEN "Signal Exit"
    ELSE NoReason

exitReasonOf(pos, close, index) ==
    IF StopLossTest(pos, close) THEN "Stop Loss"
    ELSE IF TargetTest(pos, close) THEN "Target Hit"
    ELSE IF SellTriggered(index) THEN "Signal Exit"
    ELSE NoReason

\* (c.close - position.entryPrice) * position.qty
pnlOf(pos, close) == XMul(close - pos.entryPrice, pos.qty)

\* +pnlPct.toFixed(2), in hundredths of a percent
pnlPercentOf(pos, close) ==
    IF pos.entryPrice = 0 THEN (IF close > 0 THEN Infinity ELSE NaN)
    ELSE RoundDiv((close - pos.entryPrice) * 10000, pos.entryPrice)

mkTrade(pos, c, reason, held) ==
    [id |-> Len(trades) + 1, type |-> pos.type,
     entryPrice |-> pos.entryPrice, exitPrice |-> c.close,
     entryDate |-> pos.entryDate, exitDate |-> c.date, qty |-> pos.qty,
     pnl |-> XToFixed0(pnlOf(pos, c.close)),
     pnlPercent |-> pnlPercentOf(pos, c.close),
     exitReason |-> reason, holdingPeriod |-> held]

\* the position is not cleared
positionKept(pos) == pos

\* position = null after an exit
positionAfterExit(pos) == Null

\* Math.round in place of Math.floor
computeQtyRound(cap, close) == RoundDiv(cap * positionSize, 100 * close)

\* Math.floor((capital * positionSize) / c.close); the division by a close of
\* 0 and the division of a capital that is not finite give Infinity,
\* -Infinity or NaN
computeQty(cap, close) ==
    IF IsFinite(cap) /\ close # 0 THEN (cap * positionSize) \div (100 * close)
    ELSE IF IsNaN(cap) \/ XSign(cap) * positionSize = 0 THEN NaN
    ELSE IF XSign(cap) * positionSize > 0 THEN Infinity
    ELSE NegInfinity

openPosition(cap, c, index) ==
    LET qty == computeQty(cap, c.close) IN
    IF XGt(qty, 0)
    THEN [type |-> "BUY", entryPrice |-> c.close, entryDate |-> c.date,
          qty |-> qty, entryIndex |-> index]
    ELSE Null

\* the open position left out of the equity
unrealizedIgnored(pos, close) == 0

\* const unrealized = position ? (c.close - position.entryPrice) * position.qty : 0
unrealizedOf(pos, close) == IF pos # Null THEN pnlOf(pos, close) ELSE 0

\* the declarations before the loop
Start ==
    /\ pc = "start"
    /\ pc' = "loop"
    /\ trades' = <<>>
    /\ capital' = initialCapital
    /\ position' = Null
    /\ equityCurve' = <<[index |-> 0, equity |-> initialCapital]>>
    /\ i' = startIndex
    /\ UNCHANGED <<candles, buyRules, sellRules, config, result, scVars, evVars, inVars>>

\* the entry test applied on the bar of an exit as well
nextPositionReenter(pos, exits, cap, c, index) ==
    IF pos # Null /\ ~exits THEN pos
    ELSE IF BuyTriggered(index) THEN openPosition(cap, c, index)
    ELSE Null

\* the position after if (position) { .. } else if (buyRules ..) { .. }
nextPosition(pos, exits, cap, c, index) ==
    IF pos # Null
    THEN (IF exits THEN positionAfterExit(pos) ELSE pos)
    ELSE IF BuyTriggered(index) THEN openPosition(cap, c, index)
    ELSE Null

\* one iteration of for (let i = startIndex; i < candles.length; i++)
LoopBody ==
    /\ pc = "loop"
    /\ i < Len(candles)
    /\ LET c == candles[i + 1]
           reason == IF position # Null THEN exitReasonOf(position, c.close, i)
                     ELSE NoReason
           exits == position # Null /\ reason # NoReason
           cap1 == IF exits THEN XAdd(capital, pnlOf(position, c.close)) ELSE capital
           pos1 == nextPosition(position, exits, capital, c, i)
           unrealized == unrealizedOf(pos1, c.close)
       IN  /\ capital' = cap1
           /\ trades' = IF exits
                        THEN Append(trades,
                                mkTrade(position, c, reason, i - position.entryIndex))
                        ELSE trades
           /\ position' = pos1
           /\ equityCurve' = Append(equityCurve,
                                [index |-> i, equity |-> XToFixed0(XAdd(cap1, unrealized))])
    /\ i' = i + 1
    /\ UNCHANGED <<candles, buyRules, sellRules, config, pc, result, scVars, evVars, inVars>>

\* the bar before the last one
lastCandleOffByOne(cs) == cs[Len(cs) - 1]

\* const last = candles[candles.length - 1]
lastCandle(cs) == cs[Len(cs)]

\* +Math.abs(w / l).toFixed(2) for l other than 0 and NaN
absQuotient(w, l) ==
    IF IsFinite(w) /\ IsFinite(l) THEN Num(RoundDiv(100 * Abs(w), Abs(l)))
    ELSE IF IsNaN(w) THEN NaN
    ELSE IF IsFinite(w) THEN Num(0)
    ELSE IF IsFinite(l) THEN Infinity
    ELSE NaN

\* profitFactor of unnamed/part_000, after +profitFactor.toFixed(2): with no
\* losing P&L and a winning trade it is Infinity
profitFactorPart000(wins, losses) ==
    LET w == XSumSeq([j \in DOMAIN wins |-> wins[j].pnl])
        l == XSumSeq([j \in DOMAIN losses |-> losses[j].pnl])
    IN  IF ~IsNaN(l) /\ XSign(l) # 0 THEN absQuotient(w, l)
        ELSE IF Len(wins) > 0 THEN Infinity ELSE Num(0)

\* profitFactor of server/index.js, after +profitFactor.toFixed(2): with no
\* losing P&L and a winning trade it is 999
profitFactor(wins, losses) ==
    LET w == XSumSeq([j \in DOMAIN wins |-> wins[j].pnl])
        l == XSumSeq([j \in DOMAIN losses |-> losses[j].pnl])
    IN  IF ~IsNaN(l) /\ XSign(l) # 0 THEN absQuotient(w, l)
        ELSE IF Len(wins) > 0 THEN Num(99900) ELSE Num(0)

\* maxDD when some equity value is not finite.  A NaN value is never a peak and
\* its dd is NaN, which is not above maxDD; once the peak is Infinity every dd
\* is NaN; below a finite peak a value of -Infinity has the dd Infinity.
maxDrawdownNotFinite(eqVals) ==
    LET isInf(j) == ~IsFinite(eqVals[j]) /\ eqVals[j] = Infinity
        counted == {j \in DOMAIN eqVals :
                       /\ ~IsNaN(eqVals[j])
                       /\ \A h \in 1..j : ~isInf(h)}
        finite == {j \in counted : IsFinite(eqVals[j])}
        peakAt(j) == LET before == {eqVals[h] : h \in {g \in finite : g <= j}}
                     IN  CHOOSE v \in before : \A u \in before : v >= u
        dds == {Percent2(peakAt(j) - eqVals[j], peakAt(j)) : j \in finite}
    IN  IF \E j \in counted : ~IsFinite(eqVals[j]) THEN Infinity
        ELSE CHOOSE d \in dds : \A e \in dds : d >= e

\* the largest (peak - eq) / peak * 100 over the equity values, peak being the
\* largest value so far; after toFixed(2).  A dd of (0 - 0) / 0 is NaN, which
\* is not above maxDD.
maxDrawdownOf(eqVals) ==
    IF \A j \in DOMAIN eqVals : IsFinite(eqVals[j])
    THEN LET dd(j) == LET peak == MaxSlice(eqVals, 0, j) IN
                      IF peak = 0 /\ eqVals[j] = 0 THEN 0
                      ELSE Percent2(peak - eqVals[j], peak)
             dds == {dd(j) : j \in DOMAIN eqVals}
         IN  CHOOSE d \in dds : \A e \in dds : d >= e
    ELSE maxDrawdownNotFinite(eqVals)

\* +(((capital - initialCapital) / initialCapital) * 100).toFixed(2); the
\* division by an initialCapital of 0 gives NaN for 0 / 0 and an infinity else
netReturnOf(cap) ==
    IF IsFinite(cap) /\ initialCapital # 0
    THEN Percent2(cap - initialCapital, initialCapital)
    ELSE IF IsNaN(cap) THEN NaN
    ELSE LET sign == XSign(XAdd(cap, -initialCapital)) * (IF initialCapital < 0 THEN -1 ELSE 1)
         IN  IF sign > 0 THEN Infinity ELSE IF sign < 0 THEN NegInfinity ELSE NaN

\* the stats object; sharpeRatio (a square root) is not part of the model
statsOf(all, cap, curve, pf) ==
    LET wins == SelectSeq(all, LAMBDA t : XGt(t.pnl, 0))
        losses == SelectSeq(all, LAMBDA t : XLe(t.pnl, 0))
        totalPnL == XSumSeq([j \in DOMAIN all |-> all[j].pnl])
        winSum == XSumSeq([j \in DOMAIN wins |-> wins[j].pnl])
        lossSum == XSumSeq([j \in DOMAIN losses |-> losses[j].pnl])
    IN  [totalTrades |-> Len(all),
         winningTrades |-> Len(wins),
         losingTrades |-> Len(losses),
         winRate |-> IF Len(all) > 0 THEN RoundDiv(Len(wins) * 1000, Len(all)) ELSE 0,
         totalPnL |-> XToFixed0(totalPnL),
         netReturn |-> netReturnOf(cap),
         maxDrawdown |-> maxDrawdownOf([j \in DOMAIN curve |-> curve[j].equity]),
         avgWin |-> IF Len(wins) = 0 THEN 0
                    ELSE IF IsFinite(winSum) THEN 100 * RoundDiv(winSum, 100 * Len(wins))
                    ELSE winSum,
         avgLoss |-> IF Len(losses) = 0 THEN 0
                     ELSE IF IsFinite(lossSum) THEN 100 * RoundDiv(lossSum, 100 * Len(losses))
                     ELSE lossSum,
         profitFactor |-> pf,
         initialCapital |-> initialCapital,
         finalCapital |-> XToFixed0(cap)]

\* the code after the loop: the forced close, the statistics, the return;
\* copy names the source file, whose profit factor is its own
FinishWith(copy) ==
    /\ pc = "loop"
    /\ i >= Len(candles)
    /\ LET forced == position # Null /\ Len(candles) > 0
           last == lastCandle(candles)
           cap1 == IF forced THEN XAdd(capital, pnlOf(position, last.close)) ELSE capital
           all == IF forced
                  THEN Append(trades,
                          mkTrade(position, last, "End of Data",
                                  Len(candles) - position.entryIndex))
                  ELSE trades
           wins == SelectSeq(all, LAMBDA t : XGt(t.pnl, 0))
           losses == SelectSeq(all, LAMBDA t : XLe(t.pnl, 0))
       IN  /\ capital' = cap1
           /\ trades' = all
           /\ result' = [trades |-> SliceLast(all, 100),
                         equityCurve |-> equityCurve,
                         stats |-> statsOf(all, cap1, equityCurve,
                                          IF copy = "part_000"
                                          THEN profitFactorPart000(wins, losses)
                                          ELSE profitFactor(wins, losses))]
    /\ pc' = "done"
    /\ UNCHANGED <<candles, buyRules, sellRules, config, i, position, equityCurve,
                   scVars, evVars, inVars>>

\* runBacktest of server/index.js from the end of its loop
Finish == FinishWith("index.js")

\* runBacktest of unnamed/part_000 from the end of its loop: the same code but
\* for the profit factor
FinishPart000 == FinishWith("part_000")

-----------------------------------------------------------------------------
(* scanLiveSignals *)

minScanBars == 50

\* fetchStockData throws when the provider fails or yields no usable candle
fetchThrows(symbol) == feed[symbol] = <<>>

\* the callback of rules.every: the verdict of one rule at the last candle
scanRuleMet(cs, rule) ==
    LET indData == computeIndicator(cs, rule.indicator, rule.params)
        lastIdx == Len(cs) - 1
        hasValues == "values" \in DOMAIN indData
        cur == IF hasValues THEN At(indData.values, lastIdx) ELSE Null
        prev == IF hasValues /\ lastIdx > 0 THEN At(indData.values, lastIdx - 1)
                ELSE Null
        target == rule.value
    IN  IF cur = Null THEN FALSE
        ELSE CASE rule.condition = "Crosses Above" ->
                    prev # Null /\ JsLe(prev, target) /\ JsGt(cur, target)
               [] rule.condition = "Crosses Below" ->
                    prev # Null /\ JsGe(prev, target) /\ JsLt(cur, target)
               [] rule.condition = "Is Above" -> JsGt(cur, target)
               [] rule.condition = "Is Below" -> JsLt(cur, target)
               [] OTHER -> FALSE

allMet(cs, rs) == \A j \in DOMAIN rs : scanRuleMet(cs, rs[j])

\* String.prototype.toUpperCase on the indicator names in use
toUpperCase(str) ==
    CASE str = "sma" -> "SMA"
      [] str = "bb" -> "BB"
      [] str = "momentum" -> "MOMENTUM"
      [] OTHER -> str

\* String.prototype.includes('Above') on the condition names in use
includesAbove(cond) == cond \in {"Crosses Above", "Is Above"}

atrPeriod == 14

\* 100 * (atr[lastIdx] || last.close * 0.02): the right operand is taken when
\* the left one is falsy, which null, undefined and 0 are
atrVal100(a, close) ==
    IF a = Null \/ a = Undef \/ a.n = 0 THEN 2 * close ELSE 100 * a.n

\* the record pushed to signals; confidence (random), time, name and change
\* are not part of the model
mkSignal(symbol, cs, rs) ==
    LET last == cs[Len(cs)]
        atr == computeATR(cs, atrPeriod)
        atrVal == atrVal100(At(atr, Len(cs) - 1), last.close)
    IN  [symbol |-> symbol,
         price |-> last.close,
         signal |-> IF rs # <<>> /\ includesAbove(rs[1].condition)
                    THEN "BUY" ELSE "SELL",
         target |-> RoundDiv(100 * last.close + 2 * atrVal, 100),
         stopLoss |-> RoundDiv(100 * last.close - atrVal, 100),
         indicator |-> IF rs # <<>> THEN toUpperCase(rs[1].indicator) ELSE "CUSTOM"]

\* what the catch block does with the signals collected so far
signalsAfterCatch(sigs) == sigs

\* one iteration of for (const symbol of stocks), its try and catch included
ScanSymbol ==
    /\ spc = "scan"
    /\ k < Len(stocks)
    /\ LET symbol == stocks[k + 1] IN
       IF fetchThrows(symbol)
       THEN signals' = signalsAfterCatch(signals)
       ELSE LET cs == feed[symbol] IN
            IF Len(cs) < minScanBars THEN signals' = signals
            ELSE IF allMet(cs, rules)
                 THEN signals' = Append(signals, mkSignal(symbol, cs, rules))
                 ELSE signals' = signals
    /\ k' = k + 1
    /\ UNCHANGED <<stocks, rules, feed, spc, btVars, evVars, inVars>>

\* return signals
ScanReturn ==
    /\ spc = "scan"
    /\ k >= Len(stocks)
    /\ spc' = "returned"
    /\ UNCHANGED <<stocks, rules, feed, k, signals, btVars, evVars, inVars>>

-----------------------------------------------------------------------------
(* The two condition evaluators applied to one rule *)

\* checkCond of runBacktest at evIndex, and the verdict of the scanner's
\* callback (which always looks at the last candle), for the rule evRule
Evaluate ==
    /\ evOut = Null
    /\ evOut' = [bt |-> checkCond(buildCache(candles, <<evRule>>), evRule, evIndex),
                 live |-> scanRuleMet(candles, evRule)]
    /\ UNCHANGED <<evRule, evIndex, btVars, scVars, inVars>>

-----------------------------------------------------------------------------
(* Inputs *)

\* number of bars, from bar startIndex - 1 on, whose closes are drawn freely
MaxTail == 4

Prices == {9500, 10000, 10500}

\* series lengths: empty, and around the warm-up of 50 bars
Lens == {0} \cup ((startIndex - 1)..(startIndex - 1 + MaxTail))

\* n bars: the bars up to index startIndex - 2 close at 100.00, the later ones
\* at tail (bar startIndex - 1 is the previous bar of the first evaluated bar)
MkCandles(n, tail) ==
    [j \in 1..n |->
        [date |-> j - 1,
         close |-> IF j >= startIndex THEN tail[j - startIndex + 1] ELSE 10000]]

Series ==
    UNION {{MkCandles(n, tail) :
                tail \in [1..(IF n >= startIndex THEN n - startIndex + 1 ELSE 0) -> Prices]} :
           n \in Lens}

Rule(ind, params, cond, value) ==
    [indicator |-> ind, params |-> params, condition |-> cond, value |-> value]

P(n) == [Period |-> n]

BuyRuleSets ==
    { <<>>,
      <<Rule("sma", P(1), "Is Above", 9750)>>,
      <<Rule("sma", P(1), "Is Below", 10250)>>,
      <<Rule("sma", P(2), "Crosses Above", 9750)>>,
      <<Rule("bb", P(1), "Equals", 10000)>>,
      <<Rule("sma", P(startIndex + 2), "Is Above", 9750)>>,
      <<Rule("momentum", P(1), "Is Above", 9750)>>,
      <<Rule("sma", P(1), "Is Above", 9750), Rule("sma", P(2), "Is Below", 10250)>> }

SellRuleSets ==
    { <<>>,
      <<Rule("sma", P(1), "Is Above", 9750)>>,
      <<Rule("sma", P(1), "Is Below", 10250)>>,
      <<Rule("sma", P(2), "Crosses Below", 10250)>>,
      <<Rule("momentum", <<>>, "Is Below", 10250)>> }

\* <<>> is the config {} (every default); amounts in hundredths
Configs ==
    { <<>>,
      [stopLossPercent |-> 10, targetPercent |-> 10],
      [stopLossPercent |-> 0, targetPercent |-> 0],
      [initialCapital |-> 100000, positionSize |-> 10] }

scIdle ==
    /\ stocks = <<>> /\ rules = <<>> /\ feed = <<>> /\ k = 0
    /\ signals = <<>> /\ spc = "idle"

evIdle == evRule = Null /\ evIndex = 0 /\ evOut = Null

inIdle == call = Null /\ ret = Null

btIdle ==
    /\ buyRules = <<>> /\ sellRules = <<>> /\ config = <<>> /\ pc = "idle"
    /\ i = 0 /\ capital = 0 /\ position = Null /\ trades = <<>>
    /\ equityCurve = <<>> /\ result = Null

\* a call runBacktest(candles, buyRules, sellRules, config)
InitBacktest ==
    /\ candles \in Series
    /\ buyRules \in BuyRuleSets
    /\ sellRules \in SellRuleSets
    /\ config \in Configs
    /\ pc = "start"
    /\ i = 0 /\ capital = 0 /\ position = Null /\ trades = <<>>
    /\ equityCurve = <<>> /\ result = Null
    /\ scIdle /\ evIdle /\ inIdle

NextBacktest == Start \/ LoopBody \/ Finish \/ FinishPart000

SpecBacktest == InitBacktest /\ [][NextBacktest]_vars

-----------------------------------------------------------------------------
(* Long runs of runBacktest: more trades than the result keeps *)

\* bars beyond LongBars in the longest series
MaxExtraBars == 4

\* 50 bars of warm-up and 200 bars after it
LongBars == startIndex + 200

\* closes repeated over the series
Cycles ==
    { <<10000, 9500, 10000, 10500>>,
      <<10000, 10500, 10500, 9500>>,
      <<10000, 10000, 10500, 10500>> }

CycleCandles(n, cycle) ==
    [j \in 1..n |-> [date |-> j - 1, close |-> cycle[((j - 1) % Len(cycle)) + 1]]]

LongSeries ==
    {CycleCandles(n, cycle) :
        n \in {startIndex + 10} \cup (LongBars..(LongBars + MaxExtraBars)),
        cycle \in Cycles}

\* runBacktest on a long series: the buy rule holds on every bar and, with
\* stop-loss and target at 0%, every position is closed on the bar after its
\* entry, so that a trade is closed every second bar
InitLong ==
    /\ candles \in LongSeries
    /\ buyRules = <<Rule("sma", P(1), "Is Above", 9000)>>
    /\ sellRules \in {<<>>, <<Rule("sma", P(1), "Is Below", 9750)>>}
    /\ config \in {[stopLossPercent |-> 0, targetPercent |-> 0],
                    [stopLossPercent |-> 0, targetPercent |-> 0,
                     initialCapital |-> 100000, positionSize |-> 20]}
    /\ pc = "start"
    /\ i = 0 /\ capital = 0 /\ position = Null /\ trades = <<>>
    /\ equityCurve = <<>> /\ result = Null
    /\ scIdle /\ evIdle /\ inIdle

SpecLong == InitLong /\ [][NextBacktest]_vars

-----------------------------------------------------------------------------
(* Runs of runBacktest on flat and on rising series *)

\* number of slopes of the rising series
MaxRise == 3

\* n bars closing at 100.00
FlatCandles(n) == [j \in 1..n |-> [date |-> j - 1, close |-> 10000]]

\* n bars, the first closing at 100.00 and each bar step above the one before
RisingCandles(n, step) ==
    [j \in 1..n |-> [date |-> j - 1, close |-> 10000 + step * (j - 1)]]

ScenarioSeries ==
    {FlatCandles(n) : n \in {50, 51, 60}} \cup
    {RisingCandles(n, 50 * s) : n \in {50, 51, 58, 62}, s \in 1..MaxRise}

ScenarioBuyRules ==
    { <<Rule("sma", P(5), "Is Below", 20000)>>,
      <<Rule("sma", P(1), "Is Above", 9900)>>,
      <<Rule("sma", P(20), "Is Above", 5000)>>,
      <<Rule("bb", <<>>, "Is Above", 9900)>>,
      <<Rule("sma", P(startIndex + 2), "Is Above", 9900)>> }

\* the default config, a tight target, a small capital, a negative stop-loss
ScenarioConfigs ==
    { <<>>,
      [stopLossPercent |-> 0, targetPercent |-> 1],
      [initialCapital |-> 100000, positionSize |-> 10],
      [stopLossPercent |-> -5] }

InitScenario ==
    /\ candles \in ScenarioSeries
    /\ buyRules \in ScenarioBuyRules
    /\ sellRules = <<>>
    /\ config \in ScenarioConfigs
    /\ pc = "start"
    /\ i = 0 /\ capital = 0 /\ position = Null /\ trades = <<>>
    /\ equityCurve = <<>> /\ result = Null
    /\ scIdle /\ evIdle /\ inIdle

SpecScenario == InitScenario /\ [][NextBacktest]_vars

-----------------------------------------------------------------------------
(* Runs of runBacktest on closes with cents and closes of 0 *)

\* the free closes after the warm-up bars
MaxCentTail == 3

CentPrices == {0, 10000, 10050}

\* startIndex bars at 100.00, then the closes of tail
CentCandles(tail) ==
    [j \in 1..(startIndex + Len(tail)) |->
        [date |-> j - 1, close |-> IF j <= startIndex THEN 10000 ELSE tail[j - startIndex]]]

CentSeries ==
    { CentCandles(tail) : tail \in UNION { [1..m -> CentPrices] : m \in 1..MaxCentTail } }

CentBuyRules ==
    { <<Rule("sma", P(1), "Is Below", 20000)>>,
      <<Rule("sma", P(1), "Is Above", 10020)>> }

CentSellRules ==
    { <<>>, <<Rule("sma", P(1), "Is Below", 10020)>> }

CentConfigs ==
    { <<>>,
      [initialCapital |-> 0],
      [positionSize |-> 100, stopLossPercent |-> 10, targetPercent |-> 10] }

InitCents ==
    /\ candles \in CentSeries
    /\ buyRules \in CentBuyRules
    /\ sellRules \in CentSellRules
    /\ config \in CentConfigs
    /\ pc = "start"
    /\ i = 0 /\ capital = 0 /\ position = Null /\ trades = <<>>
    /\ equityCurve = <<>> /\ result = Null
    /\ scIdle /\ evIdle /\ inIdle

SpecCents == InitCents /\ [][NextBacktest]_vars

-----------------------------------------------------------------------------
(* Inputs of the scanner and of the evaluators *)

\* longest watchlist
MaxStocks == 3

Symbols == {"AAA", "BBB"}

Watchlists == UNION {[1..n -> Symbols] : n \in 0..MaxStocks}

\* half of high - low of the bars of a feed: none, or 0.50
Spreads == {0, 50}

\* the candles of fetchStockData: high and low around the close
WithRange(cs, spread) ==
    [j \in 1..Len(cs) |->
        [date |-> cs[j].date, close |-> cs[j].close,
         high |-> cs[j].close + spread, low |-> cs[j].close - spread]]

\* per symbol: no data (fetchStockData throws), 49 bars, or 50 bars
Feeds ==
    [Symbols ->
        {<<>>} \cup
        {WithRange(cs, spread) :
            cs \in {x \in Series : Len(x) \in {minScanBars - 1, minScanBars}},
            spread \in Spreads}]

ScanRuleSets ==
    { <<>>,
      <<Rule("sma", P(1), "Is Above", 9750)>>,
      <<Rule("sma", P(2), "Crosses Above", 10000)>>,
      <<Rule("sma", P(1), "Equals", 10000)>>,
      <<Rule("bb", P(1), "Is Below", 10250)>>,
      <<Rule("momentum", <<>>, "Is Above", 9750)>>,
      <<Rule("sma", P(1), "Is Above", 9750), Rule("sma", P(2), "Is Below", 10250)>> }

\* a call scanLiveSignals(stocks, rules)
InitScan ==
    /\ stocks \in Watchlists
    /\ rules \in ScanRuleSets
    /\ feed \in Feeds
    /\ k = 0 /\ signals = <<>> /\ spc = "scan"
    /\ candles = <<>> /\ btIdle /\ evIdle /\ inIdle

NextScan == ScanSymbol \/ ScanReturn

SpecScan == InitScan /\ [][NextScan]_vars

EvalRules ==
    {Rule(ind, params, cond, 10000) :
        ind \in {"sma", "bb", "momentum"},
        params \in {P(2), P(startIndex + 2), <<>>},
        cond \in {"Crosses Above", "Crosses Below", "Is Above", "Is Below",
                  "Equals", "Touches"}}

\* index 0, the indices of the freely drawn bars, and the index past the end
EvalIndices(cs) ==
    {0} \cup {j \in (Len(cs) - MaxTail)..Len(cs) : j >= 0}

InitEval ==
    /\ candles \in Series
    /\ evRule \in EvalRules
    /\ evIndex \in EvalIndices(candles)
    /\ evOut = Null
    /\ btIdle /\ scIdle /\ inIdle

NextEval == Evaluate

SpecEval == InitEval /\ [][NextEval]_vars

-----------------------------------------------------------------------------
(* Calls of computeSMA, computeEMA, computeRSI and computeMACD on a close series *)

\* the steps of a linear series are 2, 4, .. 2 * MaxStep hundredths
MaxStep == 2

\* the free closes at the end of a series handed to computeRSI
MaxRsiTail == 4

\* n closes from first on with the constant difference d, then the closes of
\* tail (differences to the close before them)
LinearThen(first, d, n, tail) ==
    [j \in 1..(n + Len(tail)) |->
        IF j <= n THEN first + d * (j - 1)
        ELSE first + d * (n - 1) + SumSlice(tail, 0, j - n)]

LinearTails == { <<>>, <<0>>, <<-3, -3>>, <<5, 0>> }

MacdParams ==
    { [fast |-> 12, slow |-> 26, signal |-> 9],
      [fast |-> 2, slow |-> 4, signal |-> 3],
      [fast |-> 3, slow |-> 5, signal |-> 2] }

MacdCalls ==
    { [fn |-> "macd", closes |-> LinearThen(first, 2 * s, n, tail),
       fast |-> p.fast, slow |-> p.slow, signal |-> p.signal] :
        first \in {100, 1000}, s \in 1..MaxStep, n \in {33, 34, 36, 40},
        tail \in LinearTails, p \in MacdParams }

RsiCalls ==
    { [fn |-> "rsi", closes |-> [j \in 1..pre |-> 10000] \o tail, period |-> p] :
        pre \in {0, 12}, p \in {2, 14},
        tail \in UNION { [1..m -> Prices] : m \in 1..MaxRsiTail } }

\* calls computeSMA(closes, period) and computeEMA(closes, period), the series
\* shorter than, as long as and longer than the period
AvgCalls ==
    { [fn |-> f, closes |-> cs, period |-> p] :
        f \in {"sma", "ema"}, p \in 1..3,
        cs \in UNION { [1..m -> Prices] : m \in 0..MaxRsiTail } }

ComputeSMA ==
    /\ call # Null /\ call.fn = "sma"
    /\ ret = Null
    /\ ret' = computeSMA(call.closes, call.period)
    /\ UNCHANGED <<call, btVars, scVars, evVars>>

ComputeEMA ==
    /\ call # Null /\ call.fn = "ema"
    /\ ret = Null
    /\ ret' = computeEMA(call.closes, call.period)
    /\ UNCHANGED <<call, btVars, scVars, evVars>>

ComputeMACD ==
    /\ call # Null /\ call.fn = "macd"
    /\ ret = Null
    /\ ret' = computeMACD(call.closes, call.fast, call.slow, call.signal)
    /\ UNCHANGED <<call, btVars, scVars, evVars>>

ComputeRSI ==
    /\ call # Null /\ call.fn = "rsi"
    /\ ret = Null
    /\ ret' = computeRSI(call.closes, call.period)
    /\ UNCHANGED <<call, btVars, scVars, evVars>>

InitIndicators ==
    /\ call \in MacdCalls \cup RsiCalls \cup AvgCalls
    /\ ret = Null
    /\ candles = <<>> /\ btIdle /\ scIdle /\ evIdle

NextIndicators == ComputeMACD \/ ComputeRSI \/ ComputeSMA \/ ComputeEMA

SpecIndicators == InitIndicators /\ [][NextIndicators]_vars

-----------------------------------------------------------------------------
(* Claims about runBacktest, checked under SpecBacktest *)

LastTrade == trades[Len(trades)]

\* C1: at most one position is open at a time and trades never overlap: every
\* trade is entered at or after the bar at which the trade recorded before it
\* was closed, and so is the position currently open.
C1_TradesNeverOverlap ==
    /\ \A a \in 1..(Len(trades) - 1) : trades[a + 1].entryDate >= trades[a].exitDate
    /\ \A a \in DOMAIN trades : trades[a].exitDate >= trades[a].entryDate
    /\ (pc = "loop" /\ position # Null /\ trades # <<>>)
          => position.entryDate >= LastTrade.exitDate

C1_Witness == pc = "done" /\ Len(trades) >= 2

\* C2: on a bar where a position is open the exit reason is chosen in the order
\* stop-loss, target, signal exit: Stop Loss whenever the stop-loss test holds,
\* Target Hit only when the stop-loss test fails and the target test holds,
\* Signal Exit only when both fail and the sell rule set holds.
C2_ExitOrder ==
    [][ (pc = "loop" /\ i < Len(candles) /\ position # Null) =>
        LET close == candles[i + 1].close
            entry == position.entryPrice
            stop == (close - entry) * 100 <= -stopLossPercent * entry
            tgt == (close - entry) * 100 >= targetPercent * entry
            sig == /\ sellRules # <<>>
                   /\ \A j \in DOMAIN sellRules :
                        checkCond(indicatorCache, sellRules[j], i)
            recorded(r) == /\ Len(trades') = Len(trades) + 1
                           /\ trades'[Len(trades')].exitReason = r
        IN  /\ stop => recorded("Stop Loss")
            /\ (~stop /\ tgt) => recorded("Target Hit")
            /\ (~stop /\ ~tgt /\ sig) => recorded("Signal Exit")
            /\ (~stop /\ ~tgt /\ ~sig) => trades' = trades
      ]_vars

\* a Stop Loss trade on a bar where the target test and the sell rules held too
C2_Witness ==
    \E a \in DOMAIN trades :
        /\ trades[a].exitReason = "Stop Loss"
        /\ (trades[a].exitPrice - trades[a].entryPrice) * 100
              >= targetPercent * trades[a].entryPrice
        /\ SellTriggered(trades[a].exitDate)

\* C3: when the scan ends with a position open, exactly one more trade is
\* appended, closed at the final bar's close with reason End of Data; a position
\* that is closed becomes exactly one trade; an End of Data trade is the last
\* trade of the list and exists only once the run has ended.
C3_ForcedClose ==
    /\ [](\A a \in DOMAIN trades :
             trades[a].exitReason = "End of Data" => (a = Len(trades) /\ pc = "done"))
    /\ [][ /\ (pc = "loop" /\ pc' = "done") =>
                IF position # Null
                THEN /\ Len(trades') = Len(trades) + 1
                     /\ SubSeq(trades', 1, Len(trades)) = trades
                     /\ trades'[Len(trades')].exitReason = "End of Data"
                     /\ trades'[Len(trades')].exitPrice = candles[Len(candles)].close
                     /\ trades'[Len(trades')].entryDate = position.entryDate
                ELSE trades' = trades
           /\ (pc = "loop" /\ pc' = "loop" /\ position # Null /\ position' # position) =>
                /\ position' = Null
                /\ Len(trades') = Len(trades) + 1
                /\ trades'[Len(trades')].entryDate = position.entryDate
                /\ trades'[Len(trades')].exitReason # "End of Data"
           /\ (pc = "loop" /\ trades' # trades) => position # Null
         ]_vars

C3_Witness ==
    /\ pc = "done" /\ Len(trades) >= 2
    /\ LastTrade.exitReason = "End of Data"
    /\ LastTrade.exitPrice # 10000

C5_EmptyRuleSets ==
    /\ (buyRules = <<>> /\ pc \in {"loop", "done"}) =>
          /\ trades = <<>> /\ position = Null
          /\ \A e \in DOMAIN equityCurve : equityCurve[e].equity = initialCapital
    /\ sellRules = <<>> =>
          \A a \in DOMAIN trades : trades[a].exitReason # "Signal Exit"

C5_Witness ==
    /\ pc = "done" /\ buyRules = <<>> /\ Len(equityCurve) > 2
    /\ SellTriggered(Len(candles) - 1)

\* C6: the first 50 bars are never evaluated: no position or trade is entered
\* below index 50, and a run over 50 bars or fewer (the empty series too)
\* enters the loop with its condition i < candles.length already false, so
\* it goes to its return with no trade and totalTrades = 0.
C6_WarmUp ==
    /\ \A a \in DOMAIN trades : trades[a].entryDate >= 50
    /\ (pc = "loop" /\ position # Null) => position.entryIndex >= 50
    /\ (Len(candles) <= 50 /\ pc = "loop") => i >= Len(candles)
    /\ (Len(candles) <= 50 /\ pc = "done") =>
          /\ result.trades = <<>>
          /\ result.stats.totalTrades = 0

\* a returned run over exactly 50 bars whose buy rules hold at the last bar
C6_Witness ==
    /\ pc = "done" /\ Len(candles) = 50
    /\ BuyTriggered(Len(candles) - 1)
    /\ result.stats.totalTrades = 0

KnownKinds == {"sma", "ema", "rsi", "macd", "bb", "atr", "supertrend", "vwap"}

\* C7: a rule naming an indicator kind outside the closed set makes
\* computeIndicator signal an error and never answer with the empty line
\* series, so a run of runBacktest given such a rule never returns a result.
C7_UnknownKindFailsLoudly ==
    pc = "done" =>
        \A j \in DOMAIN (buyRules \o sellRules) :
            LET r == (buyRules \o sellRules)[j] IN
            r.indicator \notin KnownKinds =>
                /\ result = Null
                /\ computeIndicator(candles, r.indicator, r.params).values.length # 0

-----------------------------------------------------------------------------
(* Claims about the condition evaluators, checked under SpecEval *)

\* the series a rule reads: the middle line of a band, the values otherwise
SeriesOf(cs, rule) ==
    LET ind == computeIndicator(cs, rule.indicator, rule.params) IN
    IF ind.type = "band" THEN ind.middle ELSE ind.values

\* the series has a value (not the absent marker) at index j
Exists(series, j) == j >= 0 /\ j < series.length /\ series.at[j + 1] # Null

\* C8: checkCond is false for every condition when the value at the index is
\* absent; Crosses Above holds iff the values at index-1 and index both exist,
\* the previous one is <= the threshold and the current one is > it; Crosses
\* Below iff both exist, previous >= threshold and current < threshold; so no
\* crossing is reported at the first index at which the indicator is defined.
C8_CheckCond ==
    evOut # Null =>
        LET series == SeriesOf(candles, evRule)
            t == evRule.value
            both == Exists(series, evIndex - 1) /\ Exists(series, evIndex)
        IN  /\ ~Exists(series, evIndex) => evOut.bt = FALSE
            /\ evRule.condition = "Crosses Above" =>
                  evOut.bt = (/\ both
                              /\ series.at[evIndex].n <= t
                              /\ series.at[evIndex + 1].n > t)
            /\ evRule.condition = "Crosses Below" =>
                  evOut.bt = (/\ both
                              /\ series.at[evIndex].n >= t
                              /\ series.at[evIndex + 1].n < t)

\* Crosses Above evaluated at the first defined index, with the value above the
\* threshold (and 0, the number null converts to, below it)
C8_Witness ==
    /\ evOut # Null /\ evRule.condition = "Crosses Above"
    /\ LET series == SeriesOf(candles, evRule) IN
        /\ Exists(series, evIndex) /\ evIndex > 0 /\ ~Exists(series, evIndex - 1)
        /\ series.at[evIndex + 1].n > evRule.value
    /\ evOut.bt = FALSE

\* C9: for each of the five conditions and each indicator kind (the band-shaped
\* Bollinger output read at its middle line) and every series of at least 50
\* bars, the scanner's verdict for a rule at the last index equals the verdict
\* of the backtest evaluator for the same rule at the same index.
C9_ScannerSameAsBacktest ==
    (/\ evOut # Null
     /\ Len(candles) >= 50 /\ evIndex = Len(candles) - 1
     /\ evRule.indicator \in KnownKinds
     /\ evRule.condition \in {"Crosses Above", "Crosses Below", "Is Above",
                              "Is Below", "Equals"})
    => evOut.live = evOut.bt

-----------------------------------------------------------------------------
(* Claims about scanLiveSignals, checked under SpecScan *)

\* a rule set is satisfied at an index iff it is not empty and every rule of it
\* evaluates true there by the condition evaluator
RuleSetSatisfied(cs, rs, index) ==
    rs # <<>> /\ \A j \in DOMAIN rs : checkCond(buildCache(cs, rs), rs[j], index)

SymbolsOf(sigs) == [j \in DOMAIN sigs |-> sigs[j].symbol]

\* C10: whichever fetches fail, the scan visits every symbol and returns, and
\* the signals returned are exactly those of the symbols whose fetch succeeded
\* with at least 50 bars and whose rule set is satisfied at the last bar, in
\* watchlist order.
C10_FailureIsolation ==
    /\ spc = "scan" => k <= Len(stocks)
    /\ spc = "returned" =>
          /\ k = Len(stocks)
          /\ SymbolsOf(signals) =
                SelectSeq(stocks,
                    LAMBDA sym : /\ ~fetchThrows(sym)
                                 /\ Len(feed[sym]) >= 50
                                 /\ RuleSetSatisfied(feed[sym], rules,
                                                     Len(feed[sym]) - 1))

\* The same statement with the scanner's own verdict (allMet) in place of the
\* condition evaluator: failure isolation and output order taken alone.
ScanIsolationOnScannerVerdict ==
    /\ spc = "scan" => k <= Len(stocks)
    /\ spc = "returned" =>
          /\ k = Len(stocks)
          /\ SymbolsOf(signals) =
                SelectSeq(stocks,
                    LAMBDA sym : /\ ~fetchThrows(sym)
                                 /\ Len(feed[sym]) >= 50
                                 /\ allMet(feed[sym], rules))

\* a returned scan whose first fetch failed and whose two later symbols signalled
ScanIsolationWitness ==
    /\ spc = "returned" /\ Len(stocks) = 3 /\ Len(signals) = 2
    /\ fetchThrows(stocks[1])

\* C11: an empty rule set is "no signal possible": when rules is empty the scan
\* emits no signal record, for any watchlist and any candle series.
C11_EmptyRulesNoSignal ==
    rules = <<>> => signals = <<>>

\* C12: for every signal emitted, when ATR(14) is defined at the last bar (a
\* defined value of 0 included) target = close + 2 * ATR and stopLoss =
\* close - ATR; 2% of the close stands in for ATR only when ATR(14) is
\* undefined at the last bar.
C12_TargetAndStopFromATR ==
    \A j \in DOMAIN signals :
        LET cs == feed[signals[j].symbol]
            close == cs[Len(cs)].close
            a == At(computeATR(cs, 14), Len(cs) - 1)
        IN  IF a # Null /\ a # Undef
            THEN /\ signals[j].target = close + 2 * a.n
                 /\ signals[j].stopLoss = close - a.n
            ELSE /\ signals[j].target = RoundDiv(104 * close, 100)
                 /\ signals[j].stopLoss = RoundDiv(98 * close, 100)

\* C14: profitFactor is 0 when the trade list is empty, a finite large constant
\* when there is a winning trade and the losing P&L sums to nothing, and
\* |sum of winning P&L / sum of losing P&L| (to two decimals) when the losing
\* P&L does not sum to nothing; it is a finite number in every case.
C14_ProfitFactor ==
    pc = "done" =>
        LET pf == result.stats.profitFactor
            W == SumSeq([a \in DOMAIN trades |->
                            IF trades[a].pnl > 0 THEN trades[a].pnl ELSE 0])
            L == SumSeq([a \in DOMAIN trades |->
                            IF trades[a].pnl <= 0 THEN trades[a].pnl ELSE 0])
        IN  /\ pf.tag = "num"
            /\ trades = <<>> => pf.n = 0
            /\ (W > 0 /\ L = 0) => pf.n >= 99900
            /\ L # 0 => pf.n = RoundDiv(100 * W, -L)

\* C17: every trade's holdingPeriod is the index of the bar at which it was
\* closed minus the index of its entry bar, whatever the exit reason: Stop
\* Loss, Target Hit, Signal Exit or End of Data (closed against bar n - 1).
C17_HoldingPeriod ==
    \A a \in DOMAIN trades :
        trades[a].holdingPeriod = trades[a].exitDate - trades[a].entryDate

\* C18: for n candles the equity curve has 1 + max(0, n - 50) points: a first
\* point equal to initialCapital, then one point per bar i >= 50 in increasing
\* index order; the point of bar i is the realized capital after the bar plus
\* (close[i] - entryPrice) * qty of the position open after the bar, or the
\* capital alone when Flat, rounded to a whole unit.
C18_EquityCurve ==
    /\ [](/\ pc = "loop" => Len(equityCurve) = 1 + (i - 50)
          /\ pc = "done" =>
                LET n == Len(candles)
                    curve == result.equityCurve
                IN  /\ Len(curve) = 1 + (IF n - 50 > 0 THEN n - 50 ELSE 0)
                    /\ curve[1].equity = initialCapital
                    /\ \A e \in 2..Len(curve) : curve[e].index = 50 + (e - 2))
    /\ [][ (pc = "loop" /\ pc' = "loop") =>
             LET close == candles[i + 1].close
                 open == IF position' = Null THEN 0
                         ELSE (close - position'.entryPrice) * position'.qty
             IN  /\ Len(equityCurve') = Len(equityCurve) + 1
                 /\ SubSeq(equityCurve', 1, Len(equityCurve)) = equityCurve
                 /\ equityCurve'[Len(equityCurve')].index = i
                 /\ equityCurve'[Len(equityCurve')].equity
                       = 100 * RoundDiv(capital' + open, 100)
         ]_vars

\* a returned run whose only trade is the forced close, so that the realized
\* capital was initialCapital at every bar, with equity points above and below
\* it: the open position's unrealized P&L
C18_Witness ==
    /\ pc = "done" /\ Len(candles) >= 53
    /\ Len(trades) = 1 /\ trades[1].exitReason = "End of Data"
    /\ \E e \in 2..Len(result.equityCurve) :
          result.equityCurve[e].equity > initialCapital
    /\ \E e \in 2..Len(result.equityCurve) :
          result.equityCurve[e].equity < initialCapital

-----------------------------------------------------------------------------
(* Claims about the result of long runs, checked under SpecLong *)

\* C13: the result holds at most 100 trades, the last min(100, N) of the N
\* trades closed, in close order, while totalTrades, winningTrades,
\* losingTrades, winRate and totalPnL are computed over all N trades.
C13_Last100Trades ==
    pc = "done" =>
        LET N == Len(trades)
            M == IF N < 100 THEN N ELSE 100
            won == {a \in 1..N : trades[a].pnl > 0}
        IN  /\ Len(result.trades) = M
            /\ \A j \in 1..M : result.trades[j] = trades[N - M + j]
            /\ result.stats.totalTrades = N
            /\ result.stats.winningTrades = Cardinality(won)
            /\ result.stats.losingTrades = N - Cardinality(won)
            /\ result.stats.totalPnL =
                  ToFixed0(SumSeq([a \in 1..N |-> trades[a].pnl]))
            /\ result.stats.winRate =
                  (IF N = 0 THEN 0 ELSE RoundDiv(1000 * Cardinality(won), N))

\* a returned run of more than 100 trades, winners and losers among them, whose
\* first 100 trades are not its last 100
C13_Witness ==
    /\ pc = "done" /\ Len(trades) > 100
    /\ result.trades[1].id = Len(trades) - 99
    /\ result.stats.winningTrades > 0 /\ result.stats.losingTrades > 0
    /\ trades[1].pnl # trades[Len(trades) - 99].pnl

-----------------------------------------------------------------------------
(* Claims about runs on flat and rising series, checked under SpecScenario *)

\* 60 bars closing at 100, buy rule {sma, Period 5, Is Below, 200}, no sell
\* rules, default config
FlatScenario ==
    /\ candles = FlatCandles(60)
    /\ buyRules = <<Rule("sma", P(5), "Is Below", 20000)>>
    /\ sellRules = <<>>
    /\ config = <<>>

\* C15: in the flat scenario a position is opened at bar 50, no exit is
\* recorded on bars 51..59, and the run returns exactly one trade, with reason
\* End of Data and P&L 0, netReturn = 0 and maxDrawdown = 0.
C15_FlatScenario ==
    FlatScenario =>
        /\ (pc = "loop" /\ i > 50) =>
              /\ position # Null /\ position.entryIndex = 50
              /\ trades = <<>>
        /\ pc = "done" =>
              /\ Len(result.trades) = 1
              /\ result.trades[1].exitReason = "End of Data"
              /\ result.trades[1].entryDate = 50
              /\ result.trades[1].exitDate = 59
              /\ result.trades[1].pnl = 0
              /\ result.stats.totalTrades = 1
              /\ result.stats.netReturn = 0
              /\ result.stats.maxDrawdown = 0

C15_Witness == FlatScenario /\ pc = "done" /\ result.trades[1].qty = 100

StrictlyIncreasing(cs) ==
    \A j \in 1..(Len(cs) - 1) : cs[j + 1].close > cs[j].close

\* a strictly increasing series of at least n bars, one buy rule Is Above with a
\* threshold below the first close, no sell rules
RisingScenario(n) ==
    /\ Len(candles) >= n /\ StrictlyIncreasing(candles)
    /\ Len(buyRules) = 1
    /\ buyRules[1].condition = "Is Above"
    /\ buyRules[1].value < candles[1].close
    /\ sellRules = <<>>

\* C16: in a rising scenario of at least 50 bars a position is opened at the
\* first evaluated bar, index 50, and every trade recorded has exit reason
\* Target Hit or End of Data.
C16_RisingSeries ==
    RisingScenario(50) =>
        /\ pc = "done" => (trades # <<>> /\ trades[1].entryDate = 50)
        /\ \A a \in DOMAIN trades :
              trades[a].exitReason \in {"Target Hit", "End of Data"}

\* C16 as amended: the same for at least 51 bars (so that bar 50 exists), a rule
\* on a moving average of the closes that is defined at bar 50 (sma, or the
\* middle line of bb, of period at most 51), a stop-loss percentage that is
\* not negative and a capital that buys at least one unit at bar 50.
C16_RisingSeriesAmended ==
    (/\ RisingScenario(51)
     /\ buyRules[1].indicator \in {"sma", "bb"}
     /\ PeriodOf(buyRules[1].params, 20) <= 51
     /\ stopLossPercent >= 0
     /\ (initialCapital * positionSize) \div (100 * candles[51].close) >= 1)
    =>  /\ pc = "done" => (trades # <<>> /\ trades[1].entryDate = 50)
        /\ (pc = "loop" /\ i > 50 /\ trades = <<>>) =>
              (position # Null /\ position.entryIndex = 50)
        /\ \A a \in DOMAIN trades :
              trades[a].exitReason \in {"Target Hit", "End of Data"}

\* a returned run on a rising series with a Target Hit trade entered at bar 50
\* and a later End of Data trade
C16_Witness ==
    /\ RisingScenario(51) /\ pc = "done" /\ stopLossPercent >= 0
    /\ Len(trades) >= 2
    /\ trades[1].entryDate = 50 /\ trades[1].exitReason = "Target Hit"
    /\ trades[Len(trades)].exitReason = "End of Data"

-----------------------------------------------------------------------------
(* Claims about computeMACD and computeRSI, checked under SpecIndicators *)

\* closes has a constant positive first difference
LinearlyIncreasing(closes) ==
    /\ Len(closes) >= 2
    /\ closes[2] > closes[1]
    /\ \A j \in 2..Len(closes) : closes[j] - closes[j - 1] = closes[2] - closes[1]

\* computeMACD has returned for a linearly increasing series
MacdOfLinear ==
    /\ ret # Null /\ call.fn = "macd"
    /\ LinearlyIncreasing(call.closes)

\* the positions at which both EMAs (a MACD line value) and the signal line
\* are defined
MacdDefined ==
    { j \in 1..Len(call.closes) :
        ret.macdLine.at[j] # Null /\ ret.signalLine.at[j] # Null }

\* C19: for a linearly increasing close series the histogram of computeMACD
\* is constant and strictly positive at every index where both EMAs and the
\* signal line are defined.
C19_HistogramPositive ==
    MacdOfLinear =>
        \A j \in MacdDefined :
            /\ ret.histogram.at[j] # Null
            /\ ret.histogram.at[j].n > 0
            /\ \A h \in MacdDefined : ret.histogram.at[h] = ret.histogram.at[j]

\* C19, amended: for a linearly increasing close series of whole hundredths
\* whose step is a whole number of 0.02, the histogram of computeMACD is
\* constant and equal to 0 at every index where both EMAs and the signal line
\* are defined.
C19_HistogramZero ==
    (MacdOfLinear /\ (call.closes[2] - call.closes[1]) % 2 = 0) =>
        \A j \in MacdDefined : ret.histogram.at[j] = Num(0)

\* the default periods on 40 linear closes: the histogram is defined at the
\* seven indices 33..39, the MACD line there is positive
C19_Witness ==
    /\ MacdOfLinear
    /\ call.fast = 12 /\ call.slow = 26 /\ call.signal = 9
    /\ Len(call.closes) = 40
    /\ MacdDefined = 34..40
    /\ \A j \in MacdDefined : ret.macdLine.at[j].n > 0 /\ ret.histogram.at[j] = Num(0)

\* RSI as documented: 100 when the average loss is 0
rsiAsDocumented(avgGain, avgLoss) ==
    IF avgLoss.num = 0 THEN 10000
    ELSE RatRound(RatSub(RatInt(10000),
             RatDiv(RatInt(10000), RatAdd(RatInt(1), RatDiv(avgGain, avgLoss)))))

\* C20: computeRSI emits exactly 100 at every defined index where the smoothed
\* average loss is 0, and 100 - 100 / (1 + avgGain / avgLoss) otherwise.
C20_RsiValue ==
    (ret # Null /\ call.fn = "rsi") =>
        \A j \in 1..Len(call.closes) :
            ret.at[j] # Null =>
                LET s == rsiState(call.closes, call.period, j - 1)
                IN  ret.at[j] = Num(rsiAsDocumented(s.avgGain, s.avgLoss))

\* a call of computeSMA, computeEMA or computeRSI has returned, the period at
\* least 1 and the series shorter than the period
ShortSeriesCall ==
    /\ ret # Null /\ call.fn \in {"sma", "ema", "rsi"}
    /\ call.period >= 1 /\ Len(call.closes) < call.period

\* C21: for every period P >= 1 and every close series of length n < P,
\* computeSMA, computeEMA and computeRSI return exactly n entries, all null.
C21_ShortSeriesAbsent ==
    ShortSeriesCall =>
        /\ ret.length = Len(call.closes)
        /\ DOMAIN ret.at = 1..Len(call.closes)
        /\ \A j \in 1..Len(call.closes) : ret.at[j] = Null

\* computeRSI returned for a series one close shorter than its period
C21_Witness ==
    /\ ShortSeriesCall /\ call.fn = "rsi"
    /\ Len(call.closes) = call.period - 1 /\ Len(call.closes) >= 1
    /\ ret.length = Len(call.closes)

-----------------------------------------------------------------------------
(* Further claims about runBacktest, checked under SpecBacktest *)

\* a pass of the loop of runBacktest
LoopPass == pc = "loop" /\ pc' = "loop" /\ i' = i + 1

\* C22: a bar performs at most one position transition: on the bar where a
\* position is closed none is opened (a re-entry is on a later bar), on the bar
\* where a position is opened no exit is applied to it, and every trade closed
\* inside the scan has holdingPeriod >= 1.
C22_OneTransitionPerBar ==
    /\ [](\A j \in 1..Len(trades) :
            /\ trades[j].exitReason # "End of Data" => trades[j].holdingPeriod >= 1
            /\ j > 1 => trades[j].entryDate > trades[j - 1].exitDate)
    /\ [][LoopPass =>
            /\ Len(trades') > Len(trades) => position' = Null
            /\ (position = Null /\ position' # Null) =>
                    trades' = trades /\ position'.entryIndex = i
            /\ Len(trades') <= Len(trades) + 1]_vars

\* a trade closed on the bar after its entry, and a re-entry on the bar after
\* that exit
C22_Witness ==
    /\ Len(trades) >= 2
    /\ trades[1].exitReason # "End of Data" /\ trades[1].holdingPeriod = 1
    /\ trades[2].entryDate = trades[1].exitDate + 1

\* C23: after any run the statistics are consistent: stats.totalPnL (the sum
\* of the rounded pnl of the trades) equals stats.finalCapital -
\* stats.initialCapital.
C23_StatsConsistent ==
    pc = "done" =>
        /\ IsFinite(result.stats.totalPnL) /\ IsFinite(result.stats.finalCapital)
        /\ result.stats.totalPnL
               = result.stats.finalCapital - result.stats.initialCapital

\* C24: for initialCapital >= 0, 0 < positionSize <= 1 and non-negative closes
\* the realized capital and every equity point stay >= 0.
C24_CapitalNeverNegative ==
    (/\ pc \in {"loop", "done"}
     /\ initialCapital >= 0 /\ positionSize > 0 /\ positionSize <= 100
     /\ \A j \in 1..Len(candles) : candles[j].close >= 0) =>
        /\ XGe(capital, 0)
        /\ \A e \in 1..Len(equityCurve) : XGe(equityCurve[e].equity, 0)

====
